---- MODULE Spec2Model ----
(***************************************************************************)
(* Model of the recurring-transaction scheduler of WalletAI:               *)
(* process_recurring_transactions (src/main.py), the recurrence rules it   *)
(* reads and advances (models/recurring.py), the rule wizard's final step  *)
(* (handlers/recurring.py save_recurring) and the transaction ledger.      *)
(* Timestamps are kept at day resolution: a datetime is a record           *)
(* [year, month, day] and the date arithmetic is the one of Python's       *)
(* datetime (timedelta addition through ordinals, replace on fields).      *)
(* Two further components have specifications of their own: the debt       *)
(* settlement of a shared wallet (SpecSettle) and the bookkeeping views    *)
(* over the transactions table (SpecBooks).                                *)
(***************************************************************************)
EXTENDS Integers, Sequences, FiniteSets, TLC

(***************************************************************************)
(* Bounds of the model.                                                    *)
(***************************************************************************)
\* how many recurrence rules the wizard may create
MaxRules == 2
\* how many transactions the ledger may hold (sweeps stop being started
\* when their inserts could exceed it)
MaxTxns == 3
\* how many members a shared wallet may have
MaxMembers == 3
\* the largest absolute balance of a member, in the currency's smallest unit
MaxBalance == 3
\* how many rows the transactions table may hold in the bookkeeping model
MaxRows == 2
\* the last day, counted from the first one, a transaction may be dated
MaxDay == 2

\* members of a wallet whose settlement takes several rounds
MaxParties == 5

\* rows of the table budgets
MaxBudgets == 2

\* RateLimiter(max_requests, window_seconds), scaled down, and the seconds
\* the clock runs
max_requests == 2
window == 2
MaxTime == 3

\* the scheduler instances, each running process_recurring_transactions
Sweepers == {"s1", "s2"}

(***************************************************************************)
(* datetime at day resolution.                                             *)
(***************************************************************************)
Date(y, m, d) == [year |-> y, month |-> m, day |-> d]

\* the unset value of a nullable DateTime column
None == Date(0, 0, 0)

IsLeap(y) == (y % 4 = 0) /\ ((y % 100 # 0) \/ (y % 400 = 0))

DaysInMonth(y, m) ==
    IF m = 2 /\ IsLeap(y) THEN 29
    ELSE <<31, 28, 31, 30, 31, 30, 31, 31, 30, 31, 30, 31>>[m]

DaysBeforeYear(y) ==
    LET p == y - 1 IN p * 365 + (p \div 4) - (p \div 100) + (p \div 400)

DaysBeforeMonth(y, m) ==
    <<0, 31, 59, 90, 120, 151, 181, 212, 243, 273, 304, 334>>[m]
        + (IF m > 2 /\ IsLeap(y) THEN 1 ELSE 0)

\* datetime.toordinal
ToOrdinal(dt) == DaysBeforeYear(dt.year) + DaysBeforeMonth(dt.year, dt.month) + dt.day

\* datetime.fromordinal (_ord2ymd)
FromOrdinal(ord) ==
    LET n0   == ord - 1
        n400 == n0 \div 146097
        r400 == n0 % 146097
        n100 == r400 \div 36524
        r100 == r400 % 36524
        n4   == r100 \div 1461
        r4   == r100 % 1461
        n1   == r4 \div 365
        n    == r4 % 365
        year == n400 * 400 + 1 + n100 * 100 + n4 * 4 + n1
        leap == (n1 = 3) /\ ((n4 # 24) \/ (n100 = 3))
        m0   == (n + 50) \div 32
        pre0 == <<0, 31, 59, 90, 120, 151, 181, 212, 243, 273, 304, 334>>[m0]
                    + (IF m0 > 2 /\ leap THEN 1 ELSE 0)
        back == pre0 > n
        month == IF back THEN m0 - 1 ELSE m0
        pre  == IF back
                THEN pre0 - (<<31, 28, 31, 30, 31, 30, 31, 31, 30, 31, 30, 31>>[month]
                              + (IF month = 2 /\ leap THEN 1 ELSE 0))
                ELSE pre0
    IN  IF n1 = 4 \/ n100 = 4
        THEN Date(year - 1, 12, 31)
        ELSE Date(year, month, n - pre + 1)

\* dt + timedelta(days = k)
AddDays(dt, k) == FromOrdinal(ToOrdinal(dt) + k)

\* a <= b on datetimes
DateLeq(a, b) == ToOrdinal(a) <= ToOrdinal(b)

\* datetime.replace(year, month, day) raises ValueError unless the day exists
ValidDate(y, m, d) == m \in 1..12 /\ d >= 1 /\ d <= DaysInMonth(y, m)

Min(a, b) == IF a <= b THEN a ELSE b

\* the sum of a sequence of numbers
RECURSIVE SumSeq(_)
SumSeq(q) == IF q = <<>> THEN 0 ELSE q[1] + SumSeq(Tail(q))

(***************************************************************************)
(* The wall clock.  A run starts in January of a common year (2023) or of  *)
(* a leap year (2024) and time passes from one of these dates to any later *)
(* one of the same year, so a sweep may come on time or arbitrarily late.  *)
(***************************************************************************)
ClockDates ==
    { Date(2023, 1, 30), Date(2023, 1, 31), Date(2023, 2, 1), Date(2023, 2, 28),
      Date(2024, 1, 30), Date(2024, 1, 31), Date(2024, 2, 29) }

StartDates == { Date(2023, 1, 30), Date(2024, 1, 30) }

\* the suffix of the callback data "freq:<suffix>": the four buttons, and any
\* other string, which the handler stores as it comes
Frequencies == {"daily", "weekly", "monthly", "yearly", "hourly"}

VARIABLES
    instances,  \* the scheduler instances of the deployment
    clock,      \* datetime.now()
    rules,      \* table recurring_transactions: sequence of rows, index = id
    ledger,     \* table transactions: sequence of rows in insertion order
    pc,         \* per sweeper: "sleep", "loaded" once its query has
                \* returned, "stopped" when its task was cancelled
    snow,       \* per sweeper: the local `now` of the sweep
    orig,       \* per sweeper: the rows its session loaded, by rule id
    log,        \* per sweeper: rule ids whose insert failed in its last commit
    balances,   \* calculate_settlements: the mapping user -> balance, as the
                \* sequence of its items in insertion order
    creditors,  \* calculate_settlements: list of <<user, credit>>
    debtors,    \* calculate_settlements: list of <<user, debt>>
    settlements,\* calculate_settlements: list of Settlement
    spc,        \* calculate_settlements: "call", "loop" or "returned"
    transactions, \* table transactions as the services and views see it:
                \* rows [id, user_id, amount, transaction_type, date]
    ret,        \* the last call of the TransactionService and what it returned
    budgets,    \* table budgets: sequence of rows, index = id
    redis,      \* per budget id: whether the key budget_alert:<id> is set
    alerts,     \* per budget id: the alerts sent since its key was last absent
    apc,        \* per budget check: its await point
    todo,       \* per budget check: the budgets its loop has yet to visit
    current_time,   \* time.time(), in whole seconds
    user_requests,  \* RateLimiter.user_requests: user id -> list of times
    user_sessions,  \* SecurityMiddleware.user_sessions: user id -> time
    accepted,   \* per user: the times of the requests passed on to the handler
    allowed,    \* the last event of the middleware and whether it was passed on
    state,      \* the FSM state of the chat with the bot
    data,       \* the FSM data of the chat
    update,     \* the last update the transactions router was given
    handler,    \* the handler that took it
    saved       \* the transactions process_description has committed

schedVars == <<instances, clock, rules, ledger, pc, snow, orig, log>>

settleVars == <<balances, creditors, debtors, settlements, spc>>

bookVars == <<transactions, ret>>

alertVars == <<budgets, redis, alerts, apc, todo>>

\* the components beside the scheduler, the settlement and the books
limiterVars == <<current_time, user_requests, user_sessions, accepted, allowed>>

wizardVars == <<state, data, update, handler, saved>>

otherVars == <<alertVars, limiterVars, wizardVars>>

besideAlerts == <<schedVars, settleVars, bookVars, limiterVars, wizardVars>>

besideLimiter == <<schedVars, settleVars, bookVars, alertVars, wizardVars>>

besideWizard == <<schedVars, settleVars, bookVars, alertVars, limiterVars>>

\* what the scheduler does not touch
besideSched == <<settleVars, bookVars, otherVars>>

vars == <<schedVars, settleVars, bookVars, otherVars>>

RuleIds == DOMAIN rules

(***************************************************************************)
(* Rows.                                                                   *)
(***************************************************************************)
\* RecurringTransaction(...) as save_recurring builds it
NewRule(frequency, now) ==
    [ frequency      |-> frequency,
      next_execution |-> AddDays(now, 1),
      last_execution |-> None,
      is_active      |-> TRUE ]

\* Transaction(...) as the sweep builds it from rule `r` (its template
\* fields and "[Recurring] <description>") with date = now
NewTransaction(r, now) == [rule |-> r, date |-> now]

(***************************************************************************)
(* The sweep.                                                              *)
(***************************************************************************)
\* the query without its is_active condition
DueRulesAnyActivity(rs, now) ==
    { r \in DOMAIN rs :
        /\ rs[r].next_execution # None
        /\ DateLeq(rs[r].next_execution, now) }

\* WHERE is_active = TRUE AND next_execution <= now (NULL compares as unknown)
DueRules(rs, now) ==
    { r \in DOMAIN rs :
        /\ rs[r].is_active
        /\ rs[r].next_execution # None
        /\ DateLeq(rs[r].next_execution, now) }

RECURSIVE SortedSeq(_)
SortedSeq(S) ==
    IF S = {} THEN <<>>
    ELSE LET m == CHOOSE x \in S : \A y \in S : x <= y
         IN  <<m>> \o SortedSeq(S \ {m})

\* result.scalars(): each loaded row once, in id order
ResultScalars(loaded) == SortedSeq(DOMAIN loaded)

\* the daily and weekly advance taken from the rule's due date, not from now
NextExecutionFromDue(rec, now) ==
    CASE rec.frequency = "daily"   -> AddDays(rec.next_execution, 1)
      [] rec.frequency = "weekly"  -> AddDays(rec.next_execution, 7)
      [] rec.frequency = "monthly" ->
            LET next_month == IF now.month < 12 THEN now.month + 1 ELSE 1
                next_year  == IF now.month < 12 THEN now.year ELSE now.year + 1
            IN  Date(next_year, next_month, Min(rec.next_execution.day, 28))
      [] rec.frequency = "yearly"  -> Date(now.year + 1, now.month, now.day)
      [] OTHER                     -> rec.next_execution

\* the value the if/elif chain assigns to recurring.next_execution; no branch
\* matches any other frequency and the attribute keeps its value
NextExecution(rec, now) ==
    CASE rec.frequency = "daily"   -> AddDays(now, 1)
      [] rec.frequency = "weekly"  -> AddDays(now, 7)
      [] rec.frequency = "monthly" ->
            LET next_month == IF now.month < 12 THEN now.month + 1 ELSE 1
                next_year  == IF now.month < 12 THEN now.year ELSE now.year + 1
            IN  Date(next_year, next_month, Min(rec.next_execution.day, 28))
      [] rec.frequency = "yearly"  -> Date(now.year + 1, now.month, now.day)
      [] OTHER                     -> rec.next_execution

\* now.replace(...) raises ValueError when the date does not exist
Raises(rec, now) ==
    /\ rec.frequency \in {"monthly", "yearly"}
    /\ LET d == NextExecution(rec, now) IN ~ValidDate(d.year, d.month, d.day)

\* the rule object after the try block of one iteration: an exception leaves
\* the statements after the raising one undone (the Transaction is already
\* added to the session by then, see LoopAdds)
ProcessRule(rec, now) ==
    IF Raises(rec, now) THEN rec
    ELSE [rec EXCEPT !.next_execution = NextExecution(rec, now),
                     !.last_execution = now]

\* a loop that visits every selected rule twice
LoopAddsTwice(res, now) ==
    [i \in 1..(2 * Len(res)) |-> NewTransaction(res[((i - 1) % Len(res)) + 1], now)]

\* the Transaction objects the loop adds to the session: one per iteration,
\* before anything in the iteration can raise
LoopAdds(res, now) == [i \in 1..Len(res) |-> NewTransaction(res[i], now)]

\* the rules a list of transactions was made for
RulesOf(txns) == { txns[i].rule : i \in DOMAIN txns }

\* the UPDATE the flush emits for a rule object: the columns whose value
\* differs from the loaded one, written over whatever the row holds now
Flush(row, loaded, obj) ==
    [row EXCEPT
        !.next_execution = IF obj.next_execution # loaded.next_execution
                           THEN obj.next_execution ELSE @,
        !.last_execution = IF obj.last_execution # loaded.last_execution
                           THEN obj.last_execution ELSE @]

\* the session of sweeper p when its loop has run: the added transactions
\* and the rule objects
Pending(p) == LoopAdds(ResultScalars(orig[p]), snow[p])
Objs(p) == [r \in DOMAIN orig[p] |-> ProcessRule(orig[p][r], snow[p])]

\* no settlement calculation is running
NoSettlementCall ==
    /\ balances = <<>>
    /\ creditors = <<>>
    /\ debtors = <<>>
    /\ settlements = <<>>
    /\ spc = "returned"

\* the bookkeeping model is not in use
NoBooks ==
    /\ transactions = <<>>
    /\ ret = [op |-> "none", user_id |-> 0, transaction_id |-> 0, value |-> 0]

\* the budget checks of the NotificationService
Checkers == {"k1", "k2"}

\* no budget check is scheduled
NoAlerts ==
    /\ budgets = <<>>
    /\ redis = <<>>
    /\ alerts = <<>>
    /\ apc = [k \in Checkers |-> "idle"]
    /\ todo = [k \in Checkers |-> <<>>]

\* the users that write to the bot
LimiterUsers == {1, 2}

\* RateLimiter.__init__ and SecurityMiddleware.__init__: nothing recorded
NoLimiter ==
    /\ current_time = 0
    /\ user_requests = [u \in LimiterUsers |-> <<>>]
    /\ user_sessions = [u \in LimiterUsers |-> None]
    /\ accepted = [u \in LimiterUsers |-> <<>>]
    /\ allowed = [user |-> 0, ok |-> TRUE]

\* the chats that talk to the bot; the FSM keeps state and data per chat
Chats == {1, 2}

\* the FSM data after state.clear(): a dict without keys
NoData == [key \in {} |-> None]

\* no wizard is open and no update has come: the FSM state is None
NoWizard ==
    /\ state = [c \in Chats |-> "None"]
    /\ data = [c \in Chats |-> NoData]
    /\ update = [kind |-> "none", chat |-> 0, text |-> "", data |-> <<>>]
    /\ handler = ""
    /\ saved = <<>>

NoOthers == NoAlerts /\ NoLimiter /\ NoWizard

\* the state after start-up; `running` is the set of instances deployed
Start(running) ==
    /\ instances = running
    /\ clock \in StartDates
    /\ rules = <<>>
    /\ ledger = <<>>
    /\ pc = [p \in Sweepers |-> "sleep"]
    /\ snow = [p \in Sweepers |-> None]
    /\ orig = [p \in Sweepers |-> <<>>]
    /\ log = [p \in Sweepers |-> {}]
    /\ NoSettlementCall
    /\ NoBooks
    /\ NoOthers

\* one bot process: main() creates the background task once
Init == Start({"s1"})

\* a horizontally scaled deployment: two bot processes on one database
InitScaled == Start(Sweepers)

\* transactions that the sweeps in flight are about to insert
RECURSIVE InFlight(_)
InFlight(S) ==
    IF S = {} THEN 0
    ELSE LET p == CHOOSE q \in S : TRUE
         IN  Cardinality(DOMAIN orig[p]) + InFlight(S \ {p})

\* time passes
Tick ==
    /\ \E t \in ClockDates :
          /\ t.year = clock.year
          /\ ToOrdinal(t) > ToOrdinal(clock)
          /\ clock' = t
    /\ UNCHANGED <<instances, rules, ledger, pc, snow, orig, log>>
    /\ UNCHANGED besideSched

\* save_recurring: the last step of the rule wizard
SaveRecurring ==
    /\ Len(rules) < MaxRules
    /\ \E f \in Frequencies : rules' = Append(rules, NewRule(f, clock))
    /\ UNCHANGED <<instances, clock, ledger, pc, snow, orig, log>>
    /\ UNCHANGED besideSched

\* the user deactivates a rule
Deactivate ==
    /\ \E r \in RuleIds :
          /\ rules[r].is_active
          /\ rules' = [rules EXCEPT ![r].is_active = FALSE]
    /\ UNCHANGED <<instances, clock, ledger, pc, snow, orig, log>>
    /\ UNCHANGED besideSched

\* now = datetime.now(); await session.execute(select ...)
SweepSelect(p) ==
    /\ pc[p] = "sleep"
    /\ Len(ledger) + InFlight(Sweepers) + Cardinality(DueRules(rules, clock)) <= MaxTxns
    /\ pc' = [pc EXCEPT ![p] = "loaded"]
    /\ snow' = [snow EXCEPT ![p] = clock]
    /\ orig' = [orig EXCEPT ![p] = [r \in DueRules(rules, clock) |-> rules[r]]]
    /\ log' = [log EXCEPT ![p] = {}]
    /\ UNCHANGED <<instances, clock, rules, ledger>>
    /\ UNCHANGED besideSched

\* the for loop (it awaits nothing) and await session.commit(): the flush
\* inserts the added transactions and updates the changed rules in one
\* database transaction.  When the store rejects an insert the transaction is
\* rolled back as a whole, the outer handler logs the exception and the task
\* sleeps; the session is closed either way.
SweepCommit(p) ==
    /\ pc[p] = "loaded"
    /\ pc' = [pc EXCEPT ![p] = "sleep"]
    /\ snow' = [snow EXCEPT ![p] = None]
    /\ orig' = [orig EXCEPT ![p] = <<>>]
    /\ \E bad \in SUBSET RulesOf(Pending(p)) :
          /\ log' = [log EXCEPT ![p] = bad]
          /\ IF bad = {}
             THEN /\ ledger' = ledger \o Pending(p)
                  /\ rules' = [r \in DOMAIN rules |->
                                 IF r \in DOMAIN orig[p]
                                 THEN Flush(rules[r], orig[p][r], Objs(p)[r])
                                 ELSE rules[r]]
             ELSE UNCHANGED <<ledger, rules>>
    /\ UNCHANGED <<instances, clock>>
    /\ UNCHANGED besideSched

\* the process is shut down while the task waits in await session.commit():
\* asyncio.run cancels the task, CancelledError is not an Exception and
\* passes both handlers, the session context manager closes the session
\* without a commit, and the task is gone
SweepInterrupt(p) ==
    /\ pc[p] = "loaded"
    /\ pc' = [pc EXCEPT ![p] = "stopped"]
    /\ snow' = [snow EXCEPT ![p] = None]
    /\ orig' = [orig EXCEPT ![p] = <<>>]
    /\ UNCHANGED <<instances, clock, rules, ledger, log>>
    /\ UNCHANGED besideSched

\* the process is started again: main() creates the background task anew
Restart(p) ==
    /\ pc[p] = "stopped"
    /\ pc' = [pc EXCEPT ![p] = "sleep"]
    /\ UNCHANGED <<instances, clock, rules, ledger, snow, orig, log>>
    /\ UNCHANGED besideSched

Next ==
    \/ Tick
    \/ SaveRecurring
    \/ Deactivate
    \/ \E p \in instances : SweepSelect(p)
    \/ \E p \in instances : SweepCommit(p)
    \/ \E p \in instances : SweepInterrupt(p)
    \/ \E p \in instances : Restart(p)

Spec == Init /\ [][Next]_vars

SpecScaled == InitScaled /\ [][Next]_vars

(***************************************************************************)
(* Debt settlement of a shared wallet:                                     *)
(* DebtCalculationService.calculate_settlements (models/shared_wallet.py). *)
(* Balances are integers in the currency's smallest unit.  A dict is the   *)
(* sequence of its items <<user, balance>> in insertion order, with        *)
(* distinct users.                                                         *)
(***************************************************************************)
\* user ids of the members of a wallet
Members == 1..MaxMembers

\* WalletMember.balance
MemberBalances == (0 - MaxBalance)..MaxBalance

\* the orders in which n members may be inserted into the mapping
InsertionOrders(n) ==
    { f \in [1..n -> Members] : \A i, j \in 1..n : f[i] = f[j] => i = j }

\* balances.items() of the mapping that holds balance b[i] for user o[i]
Items(o, b) == [i \in DOMAIN o |-> <<o[i], b[i]>>]

\* a partition that also takes the members whose balance is zero
SideWithZero(b, sign) ==
    LET side == SelectSeq(b, LAMBDA x : x[2] * sign >= 0)
    IN  [i \in DOMAIN side |-> <<side[i][1], side[i][2] * sign>>]

\* [(user, balance) ... if balance > 0] for sign = 1 and
\* [(user, -balance) ... if balance < 0] for sign = -1
Side(b, sign) ==
    LET side == SelectSeq(b, LAMBDA x : x[2] * sign > 0)
    IN  [i \in DOMAIN side |-> <<side[i][1], side[i][2] * sign>>]

\* list.sort(key=lambda x: x[1], reverse=True): descending by amount; the
\* sort is stable, so items of equal amount keep their order in the list
RECURSIVE Sort(_)
Sort(s) ==
    IF s = <<>> THEN <<>>
    ELSE LET t == Sort(SubSeq(s, 1, Len(s) - 1))
             x == s[Len(s)]
             k == Cardinality({ i \in DOMAIN t : t[i][2] >= x[2] })
         IN  SubSeq(t, 1, k) \o <<x>> \o SubSeq(t, k + 1, Len(t))

\* settle_amount = min(credit, debt)
SettleAmount(credit, debt) == Min(credit, debt)

\* a Settlement with the two parties exchanged
SettlementSwapped(debtor, creditor, amount) ==
    [debtor |-> creditor, creditor |-> debtor, amount |-> amount]

\* Settlement(debtor, creditor, settle_amount)
Settlement(debtor, creditor, amount) ==
    [debtor |-> debtor, creditor |-> creditor, amount |-> amount]

\* the settlement one iteration of the while loop appends
Emitted(cs, ds) ==
    Settlement(ds[1][1], cs[1][1], SettleAmount(cs[1][2], ds[1][2]))

\* a creditor list that never gets the rest of the credit back
CreditorsPopped(cs, ds) == Tail(cs)

\* creditors after one iteration: pop(0), and insert(0, ...) of the rest
\* when credit > debt
CreditorsAfter(cs, ds) ==
    LET credit == cs[1][2]
        debt   == ds[1][2]
    IN  IF credit > debt
        THEN <<<<cs[1][1], credit - SettleAmount(credit, debt)>>>> \o Tail(cs)
        ELSE Tail(cs)

\* a debtor list that gets the debtor back even when nothing is left of the debt
DebtorsKept(cs, ds) ==
    LET credit == cs[1][2]
        debt   == ds[1][2]
    IN  IF ~(credit > debt) /\ debt >= credit
        THEN <<<<ds[1][1], debt - SettleAmount(credit, debt)>>>> \o Tail(ds)
        ELSE Tail(ds)

\* debtors after one iteration: pop(0), and insert(0, ...) of the rest when
\* debt > credit
DebtorsAfter(cs, ds) ==
    LET credit == cs[1][2]
        debt   == ds[1][2]
    IN  IF ~(credit > debt) /\ debt > credit
        THEN <<<<ds[1][1], debt - SettleAmount(credit, debt)>>>> \o Tail(ds)
        ELSE Tail(ds)

\* the while loop as a function of the two lists
RECURSIVE WhileLoop(_, _, _)
WhileLoop(cs, ds, out) ==
    IF cs = <<>> \/ ds = <<>> THEN out
    ELSE WhileLoop(CreditorsAfter(cs, ds), DebtorsAfter(cs, ds),
                   Append(out, Emitted(cs, ds)))

\* calculate_settlements as a function of the mapping
CalculateSettlements(b) == WhileLoop(Sort(Side(b, 1)), Sort(Side(b, -1)), <<>>)

\* no sweeper is deployed
NoScheduler ==
    /\ instances = {}
    /\ clock = None
    /\ rules = <<>>
    /\ ledger = <<>>
    /\ pc = [p \in Sweepers |-> "stopped"]
    /\ snow = [p \in Sweepers |-> None]
    /\ orig = [p \in Sweepers |-> <<>>]
    /\ log = [p \in Sweepers |-> {}]

\* a call of calculate_settlements: balances = get_member_balances(wallet_id)
InitSettle ==
    /\ NoScheduler
    /\ NoOthers
    /\ NoBooks
    /\ \E n \in 0..MaxMembers :
          \E o \in InsertionOrders(n) : \E b \in [1..n -> MemberBalances] :
              balances = Items(o, b)
    /\ creditors = <<>>
    /\ debtors = <<>>
    /\ settlements = <<>>
    /\ spc = "call"

\* the two list comprehensions, the two sorts and settlements = []
SettlePartition ==
    /\ spc = "call"
    /\ creditors' = Sort(Side(balances, 1))
    /\ debtors' = Sort(Side(balances, -1))
    /\ settlements' = <<>>
    /\ spc' = "loop"
    /\ UNCHANGED <<schedVars, balances>>
    /\ UNCHANGED <<bookVars, otherVars>>

\* one iteration of while creditors and debtors
SettleIteration ==
    /\ spc = "loop"
    /\ creditors # <<>> /\ debtors # <<>>
    /\ settlements' = Append(settlements, Emitted(creditors, debtors))
    /\ creditors' = CreditorsAfter(creditors, debtors)
    /\ debtors' = DebtorsAfter(creditors, debtors)
    /\ UNCHANGED <<schedVars, balances, spc>>
    /\ UNCHANGED <<bookVars, otherVars>>

\* the loop condition is false: return settlements
SettleReturn ==
    /\ spc = "loop"
    /\ creditors = <<>> \/ debtors = <<>>
    /\ spc' = "returned"
    /\ UNCHANGED <<schedVars, balances, creditors, debtors, settlements>>
    /\ UNCHANGED <<bookVars, otherVars>>

NextSettle == SettlePartition \/ SettleIteration \/ SettleReturn

SpecSettle == InitSettle /\ [][NextSettle]_vars

\* calculate_settlements is synchronous code: once called it runs on until
\* it returns
SpecSettleFair == SpecSettle /\ WF_vars(NextSettle)

\* a call for a wallet of up to MaxParties members, inserted in id order
InitMatching ==
    /\ NoScheduler
    /\ NoOthers
    /\ NoBooks
    /\ \E n \in 0..MaxParties : \E b \in [1..n -> MemberBalances] :
          balances = Items([i \in 1..n |-> i], b)
    /\ creditors = <<>>
    /\ debtors = <<>>
    /\ settlements = <<>>
    /\ spc = "call"

SpecMatching == InitMatching /\ [][NextSettle]_vars

(***************************************************************************)
(* Bookkeeping: TransactionService (services/transaction_service.py), the  *)
(* balance command (handlers/balance.py), the history summary              *)
(* (handlers/history.py) and the comparison report                         *)
(* (services/report_service.py) over the transactions table.  Amounts are  *)
(* integers in the currency's smallest unit, a datetime is the number of   *)
(* its day.                                                                *)
(***************************************************************************)
\* User.id of the users of the bot
Users == {1, 2}

\* the values of the enum TransactionType
TransactionTypes == {"income", "expense", "transfer"}

\* the amounts a caller may pass to create_transaction
Amounts == (0 - 1)..2

\* the days a transaction may be dated and a report may be run
Days == 0..MaxDay

\* Transaction(user_id=..., amount=..., transaction_type=..., date=...) with
\* the primary key the insert gives it
Transaction(id, user_id, amount, transaction_type, date) ==
    [id |-> id, user_id |-> user_id, amount |-> amount,
     transaction_type |-> transaction_type, date |-> date]

\* a call of the service with the user_id and transaction_id it was given
\* (for create_transaction the id of the new row) and what it returned:
\* value is the id of the Transaction returned by create_transaction and
\* update_transaction, 0 for None, and 1 or 0 for the True or False of
\* delete_transaction
Returned(op, user_id, transaction_id, value) ==
    [op |-> op, user_id |-> user_id, transaction_id |-> transaction_id,
     value |-> value]

\* select(func.sum(Transaction.amount)).where(...).scalar() or 0 over the
\* rows that satisfy the where clause
ScalarSum(rows) == SumSeq([i \in DOMAIN rows |-> rows[i].amount])

\* TransactionService.get_balance
GetBalance(t, user_id) ==
    LET total_income ==
            ScalarSum(SelectSeq(t, LAMBDA r : r.user_id = user_id /\ r.transaction_type = "income"))
        total_expense ==
            ScalarSum(SelectSeq(t, LAMBDA r : r.user_id = user_id /\ r.transaction_type = "expense"))
    IN  [income |-> total_income, expense |-> total_expense,
         balance |-> total_income - total_expense]

\* cmd_balance: the balance line of the /balance message
CmdBalance(t, user_id) ==
    LET total_income ==
            ScalarSum(SelectSeq(t, LAMBDA r : r.user_id = user_id /\ r.transaction_type = "income"))
        total_expense ==
            ScalarSum(SelectSeq(t, LAMBDA r : r.user_id = user_id /\ r.transaction_type = "expense"))
    IN  total_income - total_expense

\* show_transaction_history: the transactions of the user are split into
\* those of type "income" and all the others, and the balance of the
\* summary is the sum of the first list minus the sum of the second
HistoryBalance(t, user_id) ==
    LET income_transactions ==
            SelectSeq(t, LAMBDA r : r.user_id = user_id /\ r.transaction_type = "income")
        expense_transactions ==
            SelectSeq(t, LAMBDA r : r.user_id = user_id /\ ~(r.transaction_type = "income"))
    IN  SumSeq([i \in DOMAIN income_transactions |-> income_transactions[i].amount])
          - SumSeq([i \in DOMAIN expense_transactions |-> expense_transactions[i].amount])

\* no end_date given
NoEndDate == 0 - 1

\* TransactionService.get_period_transactions: the rows returned
GetPeriodTransactions(t, user_id, start_date, end_date) ==
    SelectSeq(t, LAMBDA r :
        /\ r.user_id = user_id
        /\ r.date >= start_date
        /\ (end_date # NoEndDate => r.date <= end_date))

\* ReportService._get_period_amount
GetPeriodAmount(t, user_id, transaction_type, start_date, end_date) ==
    ScalarSum(SelectSeq(t, LAMBDA r :
        /\ r.user_id = user_id
        /\ r.transaction_type = transaction_type
        /\ r.date >= start_date
        /\ r.date <= end_date))

\* ReportService.get_comparison_report run at `now`
GetComparisonReport(t, user_id, now, current_period_days) ==
    LET current_start  == now - current_period_days
        previous_start == current_start - current_period_days
    IN  [current_expense  |-> GetPeriodAmount(t, user_id, "expense", current_start, now),
         current_income   |-> GetPeriodAmount(t, user_id, "income", current_start, now),
         previous_expense |-> GetPeriodAmount(t, user_id, "expense", previous_start, current_start),
         previous_income  |-> GetPeriodAmount(t, user_id, "income", previous_start, current_start)]

\* an empty transactions table
InitBooks ==
    /\ NoScheduler
    /\ NoOthers
    /\ NoSettlementCall
    /\ NoBooks

\* TransactionService.create_transaction
CreateTransaction ==
    /\ Len(transactions) < MaxRows
    /\ \E user_id \in Users, amount \in Amounts,
          transaction_type \in TransactionTypes, date \in Days :
          LET id == Len(transactions) + 1
          IN  /\ transactions' =
                    Append(transactions,
                           Transaction(id, user_id, amount, transaction_type, date))
              /\ ret' = Returned("create", user_id, id, id)
    /\ UNCHANGED <<schedVars, settleVars, otherVars>>

NextBooks == CreateTransaction

SpecBooks == InitBooks /\ [][NextBooks]_vars

(***************************************************************************)
(* TransactionService.update_transaction and delete_transaction over a     *)
(* table of transactions created earlier.                                  *)
(***************************************************************************)
\* the keyword arguments a caller passes to update_transaction: any subset
\* of these keys; "kind" is not an attribute of Transaction
UpdateValues ==
    [amount |-> 2, date |-> 1, transaction_type |-> "income", kind |-> "income"]

UpdateKwargs == { [k \in K |-> UpdateValues[k]] : K \in SUBSET DOMAIN UpdateValues }

\* for key, value in kwargs.items(): if hasattr(transaction, key): setattr
SetAttrs(transaction, kwargs) ==
    [k \in DOMAIN transaction |->
        IF k \in DOMAIN kwargs THEN kwargs[k] ELSE transaction[k]]

\* a lookup by primary key alone
SelectById(t, transaction_id, user_id) ==
    { i \in DOMAIN t : t[i].id = transaction_id }

\* select(Transaction).where(and_(Transaction.id == transaction_id,
\* Transaction.user_id == user_id)): the positions of the rows found
SelectOwned(t, transaction_id, user_id) ==
    { i \in DOMAIN t : t[i].id = transaction_id /\ t[i].user_id = user_id }

\* a table of transactions that create_transaction made earlier, one
\* expense of 1 on day 0 for each of up to MaxRows calls
InitService ==
    /\ NoScheduler
    /\ NoOthers
    /\ NoSettlementCall
    /\ ret = Returned("none", 0, 0, 0)
    /\ \E n \in 0..MaxRows : \E owner \in [1..n -> Users] :
          transactions = [i \in 1..n |-> Transaction(i, owner[i], 1, "expense", 0)]

\* TransactionService.update_transaction
UpdateTransaction ==
    /\ \E transaction_id \in 1..MaxRows, user_id \in Users, kwargs \in UpdateKwargs :
          LET found == SelectOwned(transactions, transaction_id, user_id)
          IN  IF found = {}
              THEN /\ ret' = Returned("update", user_id, transaction_id, 0)
                   /\ UNCHANGED transactions
              ELSE /\ transactions' =
                         [i \in DOMAIN transactions |->
                             IF i \in found
                             THEN SetAttrs(transactions[i], kwargs)
                             ELSE transactions[i]]
                   /\ ret' = Returned("update", user_id, transaction_id, transaction_id)
    /\ UNCHANGED <<schedVars, settleVars, otherVars>>

\* TransactionService.delete_transaction
DeleteTransaction ==
    /\ \E transaction_id \in 1..MaxRows, user_id \in Users :
          LET found == SelectOwned(transactions, transaction_id, user_id)
          IN  IF found = {}
              THEN /\ ret' = Returned("delete", user_id, transaction_id, 0)
                   /\ UNCHANGED transactions
              ELSE /\ transactions' =
                         SelectSeq(transactions, LAMBDA r : r.id # transaction_id)
                   /\ ret' = Returned("delete", user_id, transaction_id, 1)
    /\ UNCHANGED <<schedVars, settleVars, otherVars>>

NextService == UpdateTransaction \/ DeleteTransaction

SpecService == InitService /\ [][NextService]_vars

(***************************************************************************)
(* The computations called on demand (get_balance, the comparison report,  *)
(* calculate_settlements) next to a write of the service, over a store     *)
(* that holds a recurrence rule, transactions and member balances.         *)
(***************************************************************************)
\* a rule saved by the wizard, transactions created earlier, and a wallet of
\* two members whose balances sum to zero
InitReads ==
    /\ instances = {}
    /\ clock = Date(2023, 1, 30)
    /\ rules = <<NewRule("monthly", clock)>>
    /\ ledger = <<>>
    /\ pc = [p \in Sweepers |-> "stopped"]
    /\ snow = [p \in Sweepers |-> None]
    /\ orig = [p \in Sweepers |-> <<>>]
    /\ log = [p \in Sweepers |-> {}]
    /\ NoOthers
    /\ ret = Returned("none", 0, 0, 0)
    /\ \E n \in 0..MaxRows : \E owner \in [1..n -> Users] :
          transactions = [i \in 1..n |-> Transaction(i, owner[i], 1, "expense", 0)]
    /\ \E o \in InsertionOrders(2) : \E credit \in MemberBalances :
          balances = Items(o, <<credit, 0 - credit>>)
    /\ creditors = <<>>
    /\ debtors = <<>>
    /\ settlements = <<>>
    /\ spc = "call"

\* a balance computation that also books the balance as a transaction
GetBalanceCallWriting ==
    /\ \E user_id \in Users :
          /\ ret' = Returned("balance", user_id, 0, GetBalance(transactions, user_id))
          /\ transactions' =
                Append(transactions,
                       Transaction(Len(transactions) + 1, user_id,
                                   GetBalance(transactions, user_id).balance,
                                   "transfer", 0))
    /\ UNCHANGED <<schedVars, settleVars, otherVars>>

\* a call of TransactionService.get_balance: two selects, no write
GetBalanceCall ==
    /\ \E user_id \in Users :
          ret' = Returned("balance", user_id, 0, GetBalance(transactions, user_id))
    /\ UNCHANGED <<schedVars, settleVars, otherVars, transactions>>

\* a call of ReportService.get_comparison_report on some day: four selects
GetComparisonReportCall ==
    /\ \E user_id \in Users, now \in Days :
          ret' = Returned("report", user_id, 0,
                          GetComparisonReport(transactions, user_id, now, 1))
    /\ UNCHANGED <<schedVars, settleVars, otherVars, transactions>>

NextReads ==
    \/ GetBalanceCall
    \/ GetComparisonReportCall
    \/ SettlePartition
    \/ SettleIteration
    \/ SettleReturn
    \/ DeleteTransaction

SpecReads == InitReads /\ [][NextReads]_vars

(***************************************************************************)
(* Budget alerts: NotificationService.check_budget_alerts                  *)
(* (services/notification_service.py).  The Budget model it imports and    *)
(* its helpers _calculate_budget_spending and _send_budget_alert are not   *)
(* in the repository; a budget row carries the fields the loop reads, as   *)
(* the test constructs them, and the spending attributed to it.            *)
(***************************************************************************)
\* alert_threshold is a float fraction, here in hundredths; amounts are
\* Decimals, here in whole units
AmountLimits == {0, 100}
AlertThresholds == {55, 80}
Spendings == {55, 85}

Budget(amount_limit, alert_threshold, is_active, spent) ==
    [amount_limit |-> amount_limit, alert_threshold |-> alert_threshold,
     is_active |-> is_active, spent |-> spent]

\* await self._calculate_budget_spending(budget)
CalculateBudgetSpending(budget) == budget.spent

\* budget.alert_threshold * 100 in IEEE-754 doubles: the double nearest to
\* h/100 times 100 is the integer h, except that it lies just above h for
\* 0.07, 0.14, 0.28, 0.55, 0.56 and just below it for 0.29, 0.57, 0.58
ThresholdTimes100(h) ==
    [nearest |-> h,
     error |-> IF h \in {7, 14, 28, 55, 56} THEN 1
               ELSE IF h \in {29, 57, 58} THEN 0 - 1 ELSE 0]

\* (spent / budget.amount_limit * 100) if budget.amount_limit > 0 else 0,
\* as the fraction num/den
Percentage(spent, amount_limit) ==
    IF amount_limit > 0 THEN [num |-> spent * 100, den |-> amount_limit]
    ELSE [num |-> 0, den |-> 1]

\* percentage >= budget.alert_threshold * 100, a Decimal against a double:
\* the comparison is exact, and an error of the double is smaller than the
\* distance of two percentages
AtThreshold(percentage, product) ==
    IF product.error = 1 THEN percentage.num > product.nearest * percentage.den
    ELSE percentage.num >= product.nearest * percentage.den

\* the test of the loop body on one budget
OverThreshold(budget) ==
    LET spent == CalculateBudgetSpending(budget)
    IN  AtThreshold(Percentage(spent, budget.amount_limit),
                    ThresholdTimes100(budget.alert_threshold))

\* select(Budget).where(Budget.is_active == True), in id order
ActiveBudgets == SelectSeq([i \in DOMAIN budgets |-> i], LAMBDA i : budgets[i].is_active)

\* the scheduler calls check_budget_alerts; no marker is set, no alert sent
InitAlerts ==
    /\ NoScheduler
    /\ NoSettlementCall
    /\ NoBooks
    /\ NoLimiter
    /\ NoWizard
    /\ \E n \in 1..MaxBudgets :
          \E l \in [1..n -> AmountLimits], h \in [1..n -> AlertThresholds],
             a \in [1..n -> BOOLEAN], s \in [1..n -> Spendings] :
              budgets = [i \in 1..n |-> Budget(l[i], h[i], a[i], s[i])]
    /\ redis = [i \in DOMAIN budgets |-> FALSE]
    /\ alerts = [i \in DOMAIN budgets |-> 0]
    /\ apc = [k \in Checkers |-> "idle"]
    /\ todo = [k \in Checkers |-> <<>>]

\* the loop goes on to its next budget, or the check returns
NextBudget(k) ==
    /\ todo' = [todo EXCEPT ![k] = Tail(todo[k])]
    /\ apc' = [apc EXCEPT ![k] = IF Len(todo[k]) > 1 THEN "spending" ELSE "idle"]

\* check k starts: the select of the active budgets
CheckBudgetAlerts(k) ==
    /\ apc[k] = "idle"
    /\ todo' = [todo EXCEPT ![k] = ActiveBudgets]
    /\ apc' = [apc EXCEPT ![k] = IF ActiveBudgets # <<>> THEN "spending" ELSE "idle"]
    /\ UNCHANGED <<besideAlerts, budgets, redis, alerts>>

\* spent, percentage and the threshold test for the budget at hand
ThresholdTest(k) ==
    /\ apc[k] = "spending"
    /\ IF OverThreshold(budgets[Head(todo[k])])
       THEN apc' = [apc EXCEPT ![k] = "get"] /\ todo' = todo
       ELSE NextBudget(k)
    /\ UNCHANGED <<besideAlerts, budgets, redis, alerts>>

\* if not await self.redis.get(alert_key)
RedisGet(k) ==
    /\ apc[k] = "get"
    /\ IF ~redis[Head(todo[k])]
       THEN apc' = [apc EXCEPT ![k] = "send"] /\ todo' = todo
       ELSE NextBudget(k)
    /\ UNCHANGED <<besideAlerts, budgets, redis, alerts>>

\* await self._send_budget_alert(budget, spent, percentage)
SendBudgetAlert(k) ==
    /\ apc[k] = "send"
    /\ alerts' = [alerts EXCEPT ![Head(todo[k])] = @ + 1]
    /\ apc' = [apc EXCEPT ![k] = "setex"]
    /\ UNCHANGED <<besideAlerts, budgets, redis, todo>>

\* await self.redis.setex(alert_key, 86400, "1")
RedisSetex(k) ==
    /\ apc[k] = "setex"
    /\ redis' = [redis EXCEPT ![Head(todo[k])] = TRUE]
    /\ NextBudget(k)
    /\ UNCHANGED <<besideAlerts, budgets, alerts>>

\* 86400 seconds after its setex the key of budget b is gone
Expire(b) ==
    /\ redis[b]
    /\ redis' = [redis EXCEPT ![b] = FALSE]
    /\ alerts' = [alerts EXCEPT ![b] = 0]
    /\ UNCHANGED <<besideAlerts, budgets, apc, todo>>

NextAlerts ==
    \/ \E k \in Checkers : CheckBudgetAlerts(k)
    \/ \E k \in Checkers : ThresholdTest(k)
    \/ \E k \in Checkers : RedisGet(k)
    \/ \E k \in Checkers : SendBudgetAlert(k)
    \/ \E k \in Checkers : RedisSetex(k)
    \/ \E b \in DOMAIN budgets : Expire(b)

SpecAlerts == InitAlerts /\ [][NextAlerts]_vars

(***************************************************************************)
(* Rate limiting: RateLimiter and SecurityMiddleware                       *)
(* (middleware/security.py).  check_rate_limit awaits nothing, so a call   *)
(* is one step; time.time() does not run backwards.                        *)
(***************************************************************************)
\* the list comprehension: the requests inside the window
Pruned(requests, t) == SelectSeq(requests, LAMBDA req_time : req_time > t - window)

\* a limit test that lets one request more through
LimitExceededAbove(requests) == Len(requests) > max_requests

\* len(self.user_requests[user_id]) >= self.max_requests
LimitExceeded(requests) == Len(requests) >= max_requests

\* check_rate_limit: what it returns and the list it leaves for the user
CheckRateLimit(requests, t) ==
    IF LimitExceeded(Pruned(requests, t))
    THEN [ok |-> FALSE, requests |-> Pruned(requests, t)]
    ELSE [ok |-> TRUE, requests |-> Append(Pruned(requests, t), t)]

InitLimiter ==
    /\ NoScheduler
    /\ NoSettlementCall
    /\ NoBooks
    /\ NoAlerts
    /\ NoWizard
    /\ NoLimiter

\* SecurityMiddleware.__call__ for an event of user u: the event is dropped
\* when the limiter refuses it, else the session time is set and the handler
\* called
SecurityCall(u) ==
    /\ LET r == CheckRateLimit(user_requests[u], current_time)
       IN  /\ user_requests' = [user_requests EXCEPT ![u] = r.requests]
           /\ allowed' = [user |-> u, ok |-> r.ok]
           /\ IF r.ok
              THEN /\ accepted' = [accepted EXCEPT ![u] = Append(@, current_time)]
                   /\ user_sessions' = [user_sessions EXCEPT ![u] = current_time]
              ELSE UNCHANGED <<accepted, user_sessions>>
    /\ UNCHANGED <<besideLimiter, current_time>>

\* an event that has no user goes to the handler unchecked
SecurityCallNoUser ==
    /\ allowed' = [user |-> 0, ok |-> TRUE]
    /\ UNCHANGED <<besideLimiter, current_time, user_requests, user_sessions, accepted>>

\* a second passes
TimePasses ==
    /\ current_time < MaxTime
    /\ current_time' = current_time + 1
    /\ UNCHANGED <<besideLimiter, user_requests, user_sessions, accepted, allowed>>

NextLimiter ==
    \/ \E u \in LimiterUsers : SecurityCall(u)
    \/ SecurityCallNoUser
    \/ TimePasses

SpecLimiter == InitLimiter /\ [][NextLimiter]_vars

(***************************************************************************)
(* The add-transaction wizard: the router of handlers/transactions.py.     *)
(* An observer of the router gives an update to the first handler, in the  *)
(* order of registration, whose filter accepts it.  Callback data is kept  *)
(* as the list callback.data.split(":") of its parts.                      *)
(***************************************************************************)
\* the texts a user sends, and the callback data of the wizard's buttons
Texts == {"/add", "/cancel", "1", "0.001", "lunch"}
CategoryIds == {"7", "8"}
CallbackData ==
    {<<"trans", "income">>, <<"trans", "expense">>, <<"trans", "cancel">>}
        \cup { <<"trans", "cat", c>> : c \in CategoryIds }

MessageUpdate(chat, text) ==
    [kind |-> "message", chat |-> chat, text |-> text, data |-> <<>>]
CallbackUpdate(chat, d) ==
    [kind |-> "callback_query", chat |-> chat, text |-> "", data |-> d]

\* F.data.startswith(prefix), the prefix ending in a colon
StartsWith(d, prefix) ==
    Len(d) > Len(prefix) /\ SubSeq(d, 1, Len(prefix)) = prefix

\* int(...) of a decimal numeral
ParseInt(numeral) == CASE numeral = "7" -> 7 [] numeral = "8" -> 8

\* parse_amount, amounts in hundredths: a text that is no number or not
\* positive raises ValueError; the sign is tested before the quantize
ParseAmount(text) ==
    CASE text = "1"     -> [ok |-> TRUE, amount |-> 100]
      [] text = "0.001" -> [ok |-> TRUE, amount |-> 0]
      [] OTHER          -> [ok |-> FALSE, amount |-> 0]

\* state.update_data(key=value)
UpdateData(d, key, value) ==
    [k \in DOMAIN d \cup {key} |-> IF k = key THEN value ELSE d[k]]

\* what a handler leaves: the chat's FSM state and data, and the committed
\* transactions
Left(st, d, sv) == [state |-> st, data |-> d, saved |-> sv]
Cleared(sv) == Left("None", NoData, sv)

CmdAddTransaction(c) == Left("selecting_type", NoData, saved)

HandleTransactionType(c, d) ==
    LET action == d[2]
    IN  IF action = "cancel" THEN Cleared(saved)
        ELSE Left("waiting_for_amount",
                  UpdateData(data[c], "transaction_type", action), saved)

\* found: the select of the user returned a row
ProcessAmount(c, text, found) ==
    IF text = "/cancel" THEN Cleared(saved)
    ELSE IF ~ParseAmount(text).ok THEN Left(state[c], data[c], saved)
    ELSE IF ~found \/ "transaction_type" \notin DOMAIN data[c] THEN Cleared(saved)
    ELSE Left("selecting_category",
              UpdateData(data[c], "amount", ParseAmount(text).amount), saved)

HandleCategorySelection(c, d) ==
    Left("waiting_for_description",
         UpdateData(data[c], "category_id", ParseInt(d[3])), saved)

ProcessDescription(c, text, found) ==
    IF text = "/cancel" \/ ~found
          \/ ~({"category_id", "amount", "transaction_type"} \subseteq DOMAIN data[c])
    THEN Cleared(saved)
    ELSE Cleared(Append(saved, [category_id |-> data[c]["category_id"],
                                amount |-> data[c]["amount"],
                                transaction_type |-> data[c]["transaction_type"]]))

CmdCancel(c) ==
    IF state[c] = "None" THEN Left(state[c], data[c], saved) ELSE Cleared(saved)

\* the callback_query observer: its handlers and their prefixes in the order
\* of registration
CallbackHandlers ==
    << [handler |-> "handle_transaction_type", prefix |-> <<"trans">>],
       [handler |-> "handle_category_selection", prefix |-> <<"trans", "cat">>] >>

\* the first handler whose filter accepts the callback data, "" if none does
CallbackHandler(d) ==
    LET matching == SelectSeq(CallbackHandlers, LAMBDA h : StartsWith(d, h.prefix))
    IN  IF matching = <<>> THEN "" ELSE matching[1].handler

\* the message observer: Command("add"), the two state filters and
\* Command("cancel"), in the order of registration
MessageHandler(c, text) ==
    IF text = "/add" THEN "cmd_add_transaction"
    ELSE IF state[c] = "waiting_for_amount" THEN "process_amount"
    ELSE IF state[c] = "waiting_for_description" THEN "process_description"
    ELSE IF text = "/cancel" THEN "cmd_cancel"
    ELSE ""

\* what the handler of that name leaves
Handled(name, u, found) ==
    CASE name = "cmd_add_transaction"       -> CmdAddTransaction(u.chat)
      [] name = "handle_transaction_type"   -> HandleTransactionType(u.chat, u.data)
      [] name = "process_amount"            -> ProcessAmount(u.chat, u.text, found)
      [] name = "handle_category_selection" -> HandleCategorySelection(u.chat, u.data)
      [] name = "process_description"       -> ProcessDescription(u.chat, u.text, found)
      [] name = "cmd_cancel"                -> CmdCancel(u.chat)
      [] OTHER                              -> Left(state[u.chat], data[u.chat], saved)

InitWizard ==
    /\ NoScheduler
    /\ NoSettlementCall
    /\ NoBooks
    /\ NoAlerts
    /\ NoLimiter
    /\ NoWizard

\* the router is given update u and its handler runs to its end
Feed(u, name, found) ==
    /\ update' = u
    /\ handler' = name
    /\ state' = [state EXCEPT ![u.chat] = Handled(name, u, found).state]
    /\ data' = [data EXCEPT ![u.chat] = Handled(name, u, found).data]
    /\ saved' = Handled(name, u, found).saved
    /\ UNCHANGED besideWizard

\* a user sends a text
Message ==
    /\ Len(saved) < MaxRows
    /\ \E c \in Chats, text \in Texts, found \in BOOLEAN :
          Feed(MessageUpdate(c, text), MessageHandler(c, text), found)

\* a user presses a button of one of the wizard's keyboards
CallbackQuery ==
    \E c \in Chats, d \in CallbackData :
        Feed(CallbackUpdate(c, d), CallbackHandler(d), TRUE)

NextWizard == Message \/ CallbackQuery

SpecWizard == InitWizard /\ [][NextWizard]_vars

(***************************************************************************)
(* Vocabulary of the properties.                                           *)
(***************************************************************************)
\* how many ledger transactions were made for rule r
Count(txns, r) == Cardinality({ i \in DOMAIN txns : txns[i].rule = r })

\* this step is sweeper p's query
Selecting(p) == pc[p] = "sleep" /\ pc'[p] = "loaded"

\* this step is sweeper p's loop and commit; it succeeded when no insert failed
Committing(p) == pc[p] = "loaded" /\ pc'[p] = "sleep"
Committed(p) == Committing(p) /\ log'[p] = {}

\* this step is the cancellation of sweeper p's sweep
Interrupted(p) == pc[p] = "loaded" /\ pc'[p] = "stopped"

\* this step persists a transaction for rule r
Fires(r) == Count(ledger', r) > Count(ledger, r)

\* this step moves next_execution of rule r forward
Advances(r) ==
    ToOrdinal(rules'[r].next_execution) > ToOrdinal(rules[r].next_execution)

\* the values of the enum RecurringFrequency
KnownFrequencies == {"daily", "weekly", "monthly", "yearly"}

\* same day-of-month in the month after d, clamped to that month's last day
MonthAfter(d) ==
    LET m == IF d.month < 12 THEN d.month + 1 ELSE 1
        y == IF d.month < 12 THEN d.year ELSE d.year + 1
    IN  Date(y, m, Min(d.day, DaysInMonth(y, m)))

\* same month and day in the year after d, Feb 29 clamped to Feb 28
YearAfter(d) == Date(d.year + 1, d.month, Min(d.day, DaysInMonth(d.year + 1, d.month)))

\* this step is the threshold test of check k, and the test sends it on to
\* the alert marker
Testing(k) == apc[k] = "spending" /\ (apc'[k] # "spending" \/ todo'[k] # todo[k])
Passing(k) == Testing(k) /\ apc'[k] = "get"

\* spent >= alert_threshold * amount_limit, the threshold in hundredths
SpendingAtThreshold(budget) ==
    budget.spent * 100 >= budget.alert_threshold * budget.amount_limit

\* the sum of all balances of a mapping, of its positive ones, and of its
\* negative ones as an absolute value
Total(b) == SumSeq([i \in DOMAIN b |-> b[i][2]])
PositiveTotal(b) == SumSeq([i \in DOMAIN b |-> IF b[i][2] > 0 THEN b[i][2] ELSE 0])
NegativeTotal(b) == SumSeq([i \in DOMAIN b |-> IF b[i][2] < 0 THEN 0 - b[i][2] ELSE 0])

\* the balance of user u in a mapping
BalanceOf(b, u) ==
    IF \E i \in DOMAIN b : b[i][1] = u
    THEN b[CHOOSE i \in DOMAIN b : b[i][1] = u][2]
    ELSE 0

\* the members of a mapping whose balance is not zero
NonZero(b) == { i \in DOMAIN b : b[i][2] # 0 }

\* the sum of the amounts of a list of settlements
Paid(ss) == SumSeq([i \in DOMAIN ss |-> ss[i].amount])

\* the balance of user u once every settlement of ss is paid: a payment
\* lowers what its creditor is owed and what its debtor owes
Settled(b, ss, u) ==
    BalanceOf(b, u)
      - SumSeq([i \in DOMAIN ss |-> IF ss[i].creditor = u THEN ss[i].amount ELSE 0])
      + SumSeq([i \in DOMAIN ss |-> IF ss[i].debtor = u THEN ss[i].amount ELSE 0])

\* the first entry of a list of <<user, amount>> is one of its largest
LargestFirst(list) == \A i \in DOMAIN list : list[1][2] >= list[i][2]

\* an iteration of the matching loop is about to run
Iterating == spc = "loop" /\ creditors # <<>> /\ debtors # <<>>

\* how many of the times of a list lie in the window that ends at t
InWindow(times, t) ==
    Cardinality({ i \in DOMAIN times : times[i] > t - window /\ times[i] <= t })

\* this step is the middleware's call for an event of user u
Requesting(u) == current_time' = current_time /\ allowed'.user = u

\* this step is the press of a category button in chat c
CategoryPressed(c) ==
    /\ update'.kind = "callback_query"
    /\ update'.chat = c
    /\ StartsWith(update'.data, <<"trans", "cat">>)

\* the same mapping with its items inserted in another order
Reorderings(b) ==
    { [i \in DOMAIN b |-> b[o[i]]] :
        o \in { f \in [DOMAIN b -> DOMAIN b] :
                  \A i, j \in DOMAIN b : f[i] = f[j] => i = j } }

\* the sum of the amounts of user u's transactions of one kind
KindTotal(t, u, kind) ==
    SumSeq([i \in DOMAIN t |->
              IF t[i].user_id = u /\ t[i].transaction_type = kind
              THEN t[i].amount ELSE 0])

\* every row of the table has a positive amount
AllPositive(t) == \A i \in DOMAIN t : t[i].amount > 0

(***************************************************************************)
(* C1.  Two concurrent sweeps over the same due rule materialize one       *)
(* transaction: a sweep that commits after another sweep has changed the   *)
(* rule's next_execution since it read the rule persists no transaction    *)
(* for it.                                                                 *)
(***************************************************************************)
C1_NoDuplicateFiring ==
    [][ \A p \in Sweepers : \A r \in DOMAIN orig[p] :
            ( /\ Committing(p)
              /\ rules[r].next_execution # orig[p][r].next_execution )
            => ~Fires(r) ]_vars

(***************************************************************************)
(* C2.  In every commit of a sweep, a rule's transaction is persisted if   *)
(* and only if its next_execution advances: never a persisted transaction  *)
(* with the rule still due.                                                *)
(***************************************************************************)
C2_TransactionAndAdvanceTogether ==
    [][ \A p \in Sweepers : \A r \in RuleIds :
            Committing(p) => (Fires(r) <=> Advances(r)) ]_vars

(***************************************************************************)
(* C3.  When the insert of one rule's transaction fails in a sweep, only   *)
(* that rule is aborted (its next_execution is unchanged) and every other  *)
(* rule of the sweep has its transaction persisted and its next_execution  *)
(* changed.                                                                *)
(***************************************************************************)
C3_FailureIsolation ==
    [][ \A p \in Sweepers :
            (Committing(p) /\ log'[p] # {}) =>
                /\ \A r \in log'[p] :
                      rules'[r].next_execution = rules[r].next_execution
                /\ \A q \in DOMAIN orig[p] \ log'[p] :
                      /\ Fires(q)
                      /\ rules'[q].next_execution # rules[q].next_execution ]_vars

(***************************************************************************)
(* C4 as stated.  A daily (weekly) rule that fires gets next_execution =   *)
(* its previous next_execution + 1 day (7 days), whatever the sweep time.  *)
(***************************************************************************)
C4_AdvanceFromPreviousDue ==
    [][ \A p \in Sweepers : \A r \in DOMAIN orig[p] :
            (Committed(p) /\ rules[r].frequency \in {"daily", "weekly"}) =>
                rules'[r].next_execution =
                    AddDays(rules[r].next_execution,
                            IF rules[r].frequency = "daily" THEN 1 ELSE 7) ]_vars

(***************************************************************************)
(* C4 as amended.  A daily (weekly) rule that fires gets next_execution =  *)
(* the sweep's now + 1 day (7 days), whatever its previous next_execution: *)
(* a late sweep shifts the cadence by its lateness.                        *)
(***************************************************************************)
C4_AdvanceFromSweepTime ==
    [][ \A p \in Sweepers : \A r \in DOMAIN orig[p] :
            (Committed(p) /\ rules[r].frequency \in {"daily", "weekly"}) =>
                /\ Fires(r)
                /\ rules'[r].next_execution =
                      AddDays(snow[p], IF rules[r].frequency = "daily" THEN 1 ELSE 7)
                /\ rules'[r].last_execution = snow[p] ]_vars

\* a daily rule fired on d1 (so it was due on d1 + 1) and again, late, on a
\* later day d2, and now stands at d2 + 1
C4_LateDailyFired ==
    \E r \in RuleIds : \E i, j \in DOMAIN ledger :
        /\ rules[r].frequency = "daily"
        /\ ledger[i].rule = r /\ ledger[j].rule = r
        /\ ToOrdinal(ledger[j].date) > ToOrdinal(ledger[i].date) + 1
        /\ rules[r].last_execution = ledger[j].date
        /\ rules[r].next_execution = AddDays(ledger[j].date, 1)
        /\ rules[r].next_execution # AddDays(AddDays(ledger[i].date, 1), 1)

(***************************************************************************)
(* C5.  A monthly rule that fires gets next_execution = the same day of    *)
(* the month after its previous next_execution, clamped to the last day of *)
(* that month.                                                             *)
(***************************************************************************)
C5_MonthlySameDayNextMonth ==
    [][ \A p \in Sweepers : \A r \in DOMAIN orig[p] :
            (Committed(p) /\ rules[r].frequency = "monthly") =>
                rules'[r].next_execution = MonthAfter(rules[r].next_execution) ]_vars

(***************************************************************************)
(* C6.  A yearly rule that fires gets next_execution = the same month and  *)
(* day one year after its previous next_execution (Feb 29 clamped to Feb   *)
(* 28); the advance never fails.                                           *)
(***************************************************************************)
C6_YearlySameDayNextYear ==
    [][ \A p \in Sweepers : \A r \in DOMAIN orig[p] :
            (Committed(p) /\ rules[r].frequency = "yearly") =>
                rules'[r].next_execution = YearAfter(rules[r].next_execution) ]_vars

(***************************************************************************)
(* C7.  A rule of unknown frequency is skipped by the sweep: no            *)
(* transaction is persisted for it and none of its fields change, while    *)
(* the other rules of a sweep that commits fire.                           *)
(***************************************************************************)
C7_UnknownFrequencySkipped ==
    [][ \A p \in Sweepers : \A r \in DOMAIN orig[p] :
            Committing(p) =>
                IF rules[r].frequency \in KnownFrequencies
                THEN Committed(p) => Fires(r)
                ELSE ~Fires(r) /\ rules'[r] = rules[r] ]_vars

(***************************************************************************)
(* C8.  A sweep persists at most one transaction per rule, however long    *)
(* the rule is overdue: no step adds more than one transaction of a rule.  *)
(***************************************************************************)
C8_OneTransactionPerRulePerSweep ==
    [][ \A r \in RuleIds : Count(ledger', r) <= Count(ledger, r) + 1 ]_vars

\* a daily rule fired on d1, was next swept three or more days later on d2,
\* when it was overdue by several periods, and got one transaction dated d2
C8_OverdueFiredOnce ==
    \E r \in RuleIds : \E i, j \in DOMAIN ledger :
        /\ rules[r].frequency = "daily"
        /\ ledger[i].rule = r /\ ledger[j].rule = r
        /\ ToOrdinal(ledger[j].date) >= ToOrdinal(ledger[i].date) + 3
        /\ rules[r].last_execution = ledger[j].date
        /\ Cardinality({ k \in DOMAIN ledger : ledger[k] = ledger[j] }) = 1
        /\ Count(ledger, r) = 2

(***************************************************************************)
(* C9.  A sweep selects exactly rows that are active and due at its now,   *)
(* and only the rules a sweep selected get a transaction or have their     *)
(* next_execution or last_execution changed.                               *)
(***************************************************************************)
C9_OnlyActiveDueRulesFire ==
    [][ /\ \A p \in Sweepers :
              Selecting(p) =>
                  /\ snow'[p] = clock
                  /\ \A r \in DOMAIN orig'[p] :
                        /\ r \in RuleIds
                        /\ orig'[p][r] = rules[r]
                        /\ rules[r].is_active
                        /\ ToOrdinal(rules[r].next_execution) <= ToOrdinal(clock)
        /\ \A r \in RuleIds :
              ( \/ Fires(r)
                \/ rules'[r].next_execution # rules[r].next_execution
                \/ rules'[r].last_execution # rules[r].last_execution )
              => \E p \in Sweepers : Committing(p) /\ r \in DOMAIN orig[p] ]_vars

\* a sweep at the current date fired one rule and left alone an inactive
\* rule that was overdue at that date
C9_InactiveOverdueUntouched ==
    \E r1, r2 \in RuleIds :
        /\ ~rules[r1].is_active
        /\ ToOrdinal(rules[r1].next_execution) <= ToOrdinal(clock)
        /\ rules[r1].last_execution = None
        /\ Count(ledger, r1) = 0
        /\ rules[r2].last_execution = clock
        /\ \E i \in DOMAIN ledger : ledger[i] = NewTransaction(r2, clock)

(***************************************************************************)
(* C10.  A monthly rule standing at Jan 31 that fires advances to the last *)
(* day of February, and a monthly rule standing at the last day of         *)
(* February that fires advances to the same day of March.                  *)
(***************************************************************************)
C10_JanuaryClampThenMarch ==
    [][ \A p \in Sweepers : \A r \in DOMAIN orig[p] :
            (Committed(p) /\ rules[r].frequency = "monthly") =>
                LET due == rules[r].next_execution
                    feb == DaysInMonth(due.year, 2)
                IN  /\ (due.month = 1 /\ due.day = 31) =>
                           rules'[r].next_execution = Date(due.year, 2, feb)
                    /\ (due.month = 2 /\ due.day = feb) =>
                           rules'[r].next_execution = Date(due.year, 3, feb) ]_vars

C12_ImbalancedMappingRejected ==
    Total(balances) # 0 => spc # "returned"

(***************************************************************************)
(* C13.  For a balance mapping that sums to zero, paying every settlement  *)
(* the calculation returned brings every member's balance to exactly zero. *)
(***************************************************************************)
C13_SettlementsZeroEveryBalance ==
    (spc = "returned" /\ Total(balances) = 0) =>
        \A u \in Members : Settled(balances, settlements, u) = 0

\* a returned plan of two settlements for three members, one of them owed
\* by the other two, that leaves nobody with a balance
C13_ThreeMembersSettled ==
    /\ spc = "returned"
    /\ Total(balances) = 0
    /\ Cardinality(NonZero(balances)) = 3
    /\ Len(settlements) = 2
    /\ settlements[1].creditor = settlements[2].creditor
    /\ \A u \in Members : Settled(balances, settlements, u) = 0

(***************************************************************************)
(* C14.  For a balance mapping that sums to zero with N >= 2 members of    *)
(* nonzero balance, the calculation never holds more than N - 1            *)
(* settlements, so it returns at most N - 1.                               *)
(***************************************************************************)
C14_AtMostNMinusOneSettlements ==
    (Total(balances) = 0 /\ Cardinality(NonZero(balances)) >= 2) =>
        Len(settlements) <= Cardinality(NonZero(balances)) - 1

\* a returned plan for a wallet of three members, one of them with a zero
\* balance: N = 2 and one settlement
C14_ZeroBalanceMemberNotCounted ==
    /\ spc = "returned"
    /\ Total(balances) = 0
    /\ Len(balances) = 3
    /\ Cardinality(NonZero(balances)) = 2
    /\ Len(settlements) = 1

(***************************************************************************)
(* C15.  The amounts of the settlements returned sum to the total of the   *)
(* positive balances and to the absolute total of the negative balances.   *)
(***************************************************************************)
C15_SettlementsConserveValue ==
    spc = "returned" =>
        /\ Paid(settlements) = PositiveTotal(balances)
        /\ Paid(settlements) = NegativeTotal(balances)

(***************************************************************************)
(* C16.  The settlements returned for a mapping that sums to zero are the  *)
(* same, in the same order, for every insertion order of the same          *)
(* member-to-balance pairs.                                                *)
(***************************************************************************)
C16_InsertionOrderIrrelevant ==
    (spc = "returned" /\ Total(balances) = 0) =>
        \A b \in Reorderings(balances) : CalculateSettlements(b) = settlements

(***************************************************************************)
(* C17.  Every settlement the calculation holds, for every input mapping,  *)
(* has a strictly positive amount and goes from a member with a negative   *)
(* balance to a member with a positive balance.                            *)
(***************************************************************************)
C17_SettlementsPositiveDebtorToCreditor ==
    \A i \in DOMAIN settlements :
        /\ settlements[i].amount > 0
        /\ BalanceOf(balances, settlements[i].debtor) < 0
        /\ BalanceOf(balances, settlements[i].creditor) > 0

\* a returned plan for a mapping that does not sum to zero and has a member
\* with a zero balance: one settlement, between the other two members
C17_ImbalancedWithZeroMember ==
    /\ spc = "returned"
    /\ Total(balances) # 0
    /\ \E i \in DOMAIN balances : balances[i][2] = 0
    /\ Len(settlements) = 1
    /\ settlements[1].amount > 0
    /\ settlements[1].debtor # settlements[1].creditor

(***************************************************************************)
(* C18.  Over a table of positive amounts, every balance view              *)
(* (TransactionService.get_balance, the balance command, the history       *)
(* summary) reports for an owner the sum of the owner's income amounts     *)
(* minus the sum of the owner's expense amounts; transfers count in        *)
(* neither total.                                                          *)
(***************************************************************************)
C18_NetBalanceInEveryView ==
    AllPositive(transactions) =>
        \A u \in Users :
            LET net == KindTotal(transactions, u, "income")
                         - KindTotal(transactions, u, "expense")
            IN  /\ GetBalance(transactions, u).balance = net
                /\ CmdBalance(transactions, u) = net
                /\ (\E i \in DOMAIN transactions : transactions[i].user_id = u)
                      => HistoryBalance(transactions, u) = net

(***************************************************************************)
(* C19.  Over a table of positive amounts, period aggregation is           *)
(* half-open: no transaction dated at the end of a window is returned for  *)
(* the window, and the two adjacent periods of the comparison report       *)
(* count every transaction between the start of the previous period and    *)
(* now at most once.                                                       *)
(***************************************************************************)
C19_HalfOpenPeriods ==
    AllPositive(transactions) =>
        \A u \in Users :
            /\ \A start_date, end_date \in Days :
                  LET got == GetPeriodTransactions(transactions, u, start_date, end_date)
                  IN  \A i \in DOMAIN got : got[i].date < end_date
            /\ \A now \in Days, days \in 1..MaxDay :
                  LET report == GetComparisonReport(transactions, u, now, days)
                  IN  report.previous_expense + report.current_expense
                        <= ScalarSum(SelectSeq(transactions, LAMBDA r :
                               /\ r.user_id = u
                               /\ r.transaction_type = "expense"
                               /\ r.date >= now - 2 * days
                               /\ r.date <= now))

(***************************************************************************)
(* C20.  Every row of the transactions table has amount > 0 after any      *)
(* sequence of operations that create transactions.                        *)
(***************************************************************************)
C20_AmountsPositive ==
    \A i \in DOMAIN transactions : transactions[i].amount > 0

(***************************************************************************)
(* C21.  No operation of the transaction service changes the amount, the   *)
(* date or the type of a transaction that is in the table.                 *)
(***************************************************************************)
C21_CommittedFieldsNeverChange ==
    [][ \A i \in DOMAIN transactions : \A j \in DOMAIN transactions' :
            transactions'[j].id = transactions[i].id =>
                /\ transactions'[j].amount = transactions[i].amount
                /\ transactions'[j].date = transactions[i].date
                /\ transactions'[j].transaction_type = transactions[i].transaction_type
      ]_vars

(***************************************************************************)
(* C30.  update_transaction and delete_transaction called with a user_id   *)
(* that does not own the given transaction id leave the table as it is and *)
(* return None and False; a row is changed or removed only by a call that  *)
(* names it and carries its owner's user_id.                               *)
(***************************************************************************)
C30_OnlyOwnerModifiesOrDeletes ==
    [][ /\ ( /\ ret'.op \in {"update", "delete"}
             /\ ~\E i \in DOMAIN transactions :
                    /\ transactions[i].id = ret'.transaction_id
                    /\ transactions[i].user_id = ret'.user_id )
           => (transactions' = transactions /\ ret'.value = 0)
        /\ \A i \in DOMAIN transactions :
              (~\E j \in DOMAIN transactions' : transactions'[j] = transactions[i])
              => /\ ret'.op \in {"update", "delete"}
                 /\ ret'.transaction_id = transactions[i].id
                 /\ ret'.user_id = transactions[i].user_id ]_vars

\* user 2 called delete_transaction on a transaction of user 1, got False,
\* and the transaction is in the table as it was created
C30_ForeignDeleteRefused ==
    /\ ret.op = "delete"
    /\ ret.value = 0
    /\ \E i \in DOMAIN transactions :
          /\ transactions[i].id = ret.transaction_id
          /\ transactions[i].user_id # ret.user_id
          /\ transactions[i] = Transaction(ret.transaction_id, 1, 1, "expense", 0)

(***************************************************************************)
(* C22.  A step that computes a balance, a comparison report or a part of  *)
(* a settlement plan leaves the transactions, the recurrence rules and the *)
(* member balances as they are, and a balance computed for a user right    *)
(* after a balance computed for the same user, with no write in between,   *)
(* is the same.                                                            *)
(***************************************************************************)
C22_ComputationsChangeNothing ==
    [][ /\ ( \/ ret'.op \in {"balance", "report"}
             \/ <<creditors, debtors, settlements, spc>>'
                  # <<creditors, debtors, settlements, spc>> )
           => /\ transactions' = transactions
              /\ rules' = rules
              /\ ledger' = ledger
              /\ balances' = balances
        /\ ( /\ ret.op = "balance"
             /\ ret'.op = "balance"
             /\ ret'.user_id = ret.user_id )
           => ret'.value = ret.value ]_vars

\* a balance of -2 was computed for user 1 over two expenses and a plan of
\* one settlement was returned, with the rule, the two transactions and the
\* member balances as they were at the start
C22_BalanceAndPlanComputed ==
    /\ ret.op = "balance"
    /\ ret.user_id = 1
    /\ ret.value = [income |-> 0, expense |-> 2, balance |-> 0 - 2]
    /\ spc = "returned"
    /\ Len(settlements) = 1
    /\ Len(balances) = 2
    /\ Len(transactions) = 2
    /\ \A i \in DOMAIN transactions :
          transactions[i] = Transaction(i, 1, 1, "expense", 0)
    /\ rules = <<NewRule("monthly", Date(2023, 1, 30))>>

(***************************************************************************)
(* C23: a budget check raises an alert for a budget whenever the spending  *)
(* attributed to it is at or above alert_threshold times its limit, and    *)
(* none when it is below: the threshold test of a check, on an active      *)
(* budget whose limit is not negative, sends the check on to the alert     *)
(* exactly when spent >= alert_threshold * amount_limit.                   *)
(***************************************************************************)
C23_AlertIffSpendingAtThreshold ==
    [][\A k \in Checkers :
          Testing(k) =>
              (Passing(k) <=> SpendingAtThreshold(budgets[Head(todo[k])]))]_vars

(***************************************************************************)
(* C24: at every iteration of the matching loop, for a mapping that sums   *)
(* to zero, the creditor and the debtor taken (the heads of the lists) are *)
(* the ones with the largest remaining amount, also after a partially      *)
(* settled party was re-inserted.                                          *)
(***************************************************************************)
C24_LargestRemainingTaken ==
    (Iterating /\ Total(balances) = 0) =>
        LargestFirst(creditors) /\ LargestFirst(debtors)

(***************************************************************************)
(* C25: for every mapping that sums to zero the matching loop terminates,  *)
(* and when it has terminated both the creditor list and the debtor list   *)
(* are empty.                                                              *)
(***************************************************************************)
C25_TerminatesWithBothEmpty ==
    (Total(balances) = 0) ~>
        (spc = "returned" /\ creditors = <<>> /\ debtors = <<>>)

\* a returned plan for three members, one of them owing the other two, with
\* nobody left in either list
C25_OneDebtorPaidOff ==
    /\ spc = "returned"
    /\ Total(balances) = 0
    /\ Len(settlements) = 2
    /\ settlements[1].debtor = settlements[2].debtor
    /\ creditors = <<>> /\ debtors = <<>>

(***************************************************************************)
(* C26: a sweep run a second time with the same now, right after a sweep   *)
(* that completed, materializes nothing: every rule that fired in the      *)
(* commit of a sweep is, with its new next_execution, no longer due at     *)
(* that sweep's now.                                                       *)
(***************************************************************************)
C26_SecondSweepSameNowFiresNothing ==
    [][ \A p \in Sweepers : \A r \in RuleIds :
            (Committed(p) /\ Fires(r)) => r \notin DueRules(rules', snow[p]) ]_vars

(***************************************************************************)
(* C28: a category button (callback data trans:cat:<id>) pressed in state  *)
(* selecting_category is taken by handle_category_selection, which stores  *)
(* the category id and moves the wizard to waiting_for_description with    *)
(* transaction type and amount as they were.                               *)
(***************************************************************************)
C28_CategoryButtonMovesToDescription ==
    [][ \A c \in Chats :
          (state[c] = "selecting_category" /\ CategoryPressed(c)) =>
            /\ handler' = "handle_category_selection"
            /\ state'[c] = "waiting_for_description"
            /\ "category_id" \in DOMAIN data'[c]
            /\ data'[c]["category_id"] = ParseInt(update'.data[3])
            /\ data'[c]["transaction_type"] = data[c]["transaction_type"]
            /\ data'[c]["amount"] = data[c]["amount"] ]_vars

(***************************************************************************)
(* C29: for every user the limiter passes at most max_requests requests    *)
(* whose times lie within one window (t - window, t]; whether a request is *)
(* passed depends only on the user's own passed requests of the current    *)
(* window, so a refused request is not recorded and delays nothing, and    *)
(* the requests of one user leave the records of every other user alone.   *)
(***************************************************************************)
C29_AtMostMaxRequestsPerWindow ==
    /\ [](\A u \in LimiterUsers : \A t \in 0..MaxTime :
             InWindow(accepted[u], t) <= max_requests)
    /\ [][ \A u \in LimiterUsers :
             Requesting(u) =>
                /\ allowed'.ok <=> InWindow(accepted[u], current_time) < max_requests
                /\ ~allowed'.ok =>
                      /\ Len(user_requests'[u]) <= Len(user_requests[u])
                      /\ accepted' = accepted
                /\ \A v \in LimiterUsers \ {u} :
                      /\ user_requests'[v] = user_requests[v]
                      /\ accepted'[v] = accepted[v] ]_vars

\* user 1 is refused a third request of one second, after more requests than
\* max_requests were passed in all, while user 2 has just had one passed
C29_RefusedAfterWindowMoved ==
    /\ allowed = [user |-> 1, ok |-> FALSE]
    /\ Len(accepted[1]) > max_requests
    /\ InWindow(accepted[1], current_time) = max_requests
    /\ accepted[2] # <<>>
    /\ accepted[2][Len(accepted[2])] = current_time

(***************************************************************************)
(* C27: two budget checks, concurrent or one after the other within 24     *)
(* hours, send at most one alert for the same budget.                      *)
(***************************************************************************)
C27_AtMostOneAlertIn24Hours ==
    \A b \in DOMAIN alerts : alerts[b] <= 1

====
